---------------------------- MODULE Spec2Model ----------------------------
(***************************************************************************)
(* A model of edgar.py: the heuristics that find the "Summary of           *)
(* Significant Accounting Policies" worksheet of a financial report, the   *)
(* segmentation of that worksheet into named policies, the clean-up of a   *)
(* policy's text, and the driver loop of main.                             *)
(*                                                                         *)
(* A Python str is a sequence of one-character strings.  A cell value is a *)
(* record [type, value]: type is the Python type of the cell ("NoneType",  *)
(* "str" or "int") and value its text.  A row is a tuple of cells and a    *)
(* worksheet's values are a sequence of rows, all of the same width, as    *)
(* openpyxl's Worksheet.values yields them.                                *)
(***************************************************************************)
EXTENDS Integers, Sequences, FiniteSets, TLC

VARIABLES
    pc,                      \* position of the call or of the driver loop
    b_column_value,          \* the argument of _isHeader
    worksheet,               \* the XLSWorksheet a method is called on
    policy,                  \* the AccountingPolicy get_output_row is called on
    workbook,                \* the worksheets openpyxl.load_workbook returns
    ret,                     \* what the call returned
    inputs,                  \* main: the InputRows read from the manifest
    index,                   \* main: position of the for loop in inputs
    accounting_policies,     \* main: local of the loop body
    output_rows,             \* main: local of the loop body
    per_subject_files,       \* main: the <id>.csv files written, in order
    master_csv_output_rows,  \* main: rows collected for master.csv
    master_file,             \* main: what master.csv holds
    attempted,               \* main: the subjects the loop body was entered for
    completed                \* main: the subjects the loop body ran to its end for

vars == <<pc, b_column_value, worksheet, policy, workbook, ret, inputs, index,
          accounting_policies, output_rows, per_subject_files,
          master_csv_output_rows, master_file, attempted, completed>>

callVars == <<b_column_value, worksheet, policy, workbook>>

mainVars == <<inputs, index, accounting_policies, output_rows,
              per_subject_files, master_csv_output_rows, master_file,
              attempted, completed>>

-----------------------------------------------------------------------------
(* Bounds of the model.                                                    *)

\* _isHeader: tokens in the free head of a text, and fields padded after it
MaxHeadTokens == 3
MaxTailFields == 10

\* classifier: rows before the caption row, rows beyond the thresholds, and
\* table rows
MaxCaptionIndex == 11
MaxOver == 2
MaxTableRows == 2

\* segmentation: cells in a row, and rows after the leading title rows
MaxWidth == 3
MaxBodyRows == 4

\* text clean-up: characters in the lines of a policy
MaxTextLen == 3

\* workbook: worksheets in it
MaxSheets == 3

\* main: rows of the input manifest
MaxInputs == 2

-----------------------------------------------------------------------------
(* Python str operations.                                                  *)

Min(a, b) == IF a < b THEN a ELSE b

UpperCase == <<"A","B","C","D","E","F","G","H","I","J","K","L","M",
               "N","O","P","Q","R","S","T","U","V","W","X","Y","Z">>

LowerCase == <<"a","b","c","d","e","f","g","h","i","j","k","l","m",
               "n","o","p","q","r","s","t","u","v","w","x","y","z">>

\* str.lower() of one character
LowerChar(c) ==
    IF \E i \in 1..26 : UpperCase[i] = c
    THEN LowerCase[CHOOSE i \in 1..26 : UpperCase[i] = c]
    ELSE c

\* str.lower()
Lower(s) == [i \in 1..Len(s) |-> LowerChar(s[i])]

\* sub in s
Contains(s, sub) ==
    \E i \in 0..(Len(s) - Len(sub)) : SubSeq(s, i + 1, i + Len(sub)) = sub

\* index of the first sep in s, 0 when there is none (str.find, 1-based)
Find(s, sep) ==
    IF \E i \in 1..Len(s) : s[i] = sep
    THEN CHOOSE i \in 1..Len(s) : s[i] = sep /\ \A j \in 1..(i - 1) : s[j] # sep
    ELSE 0

\* s.split(sep, maxsplit) with a one-character sep: at most maxsplit splits,
\* from the left; empty fields are kept
RECURSIVE Split(_, _, _)
Split(s, sep, maxsplit) ==
    LET at == Find(s, sep) IN
    IF maxsplit = 0 \/ at = 0
    THEN <<s>>
    ELSE <<SubSeq(s, 1, at - 1)>>
         \o Split(SubSeq(s, at + 1, Len(s)), sep, maxsplit - 1)

\* sep.join(parts)
RECURSIVE Join(_, _)
Join(sep, parts) ==
    IF parts = <<>> THEN <<>>
    ELSE IF Len(parts) = 1 THEN parts[1]
    ELSE parts[1] \o sep \o Join(sep, Tail(parts))

\* the concatenation of a sequence of sequences
RECURSIVE Flatten(_)
Flatten(ss) == IF ss = <<>> THEN <<>> ELSE Head(ss) \o Flatten(Tail(ss))

\* n copies of x
Repeat(x, n) == [i \in 1..n |-> x]

-----------------------------------------------------------------------------
(* XLSWorksheet._isHeader                                                  *)

HEADER_MAX_FIELDS == 8
HEADER_MAXSPLIT == 9

_isHeader_limit_off_by_one(b) ==
    IF Len(Split(b, " ", HEADER_MAXSPLIT)) >= HEADER_MAX_FIELDS THEN FALSE
    ELSE IF Contains(b, <<"y","e","a","r">>) \/ Contains(b, <<"$">>)
         THEN FALSE
    ELSE TRUE

_isHeader(b) ==
    IF Len(Split(b, " ", HEADER_MAXSPLIT)) > HEADER_MAX_FIELDS THEN FALSE
    ELSE IF Contains(b, <<"y","e","a","r">>) \/ Contains(b, <<"$">>)
         THEN FALSE
    ELSE TRUE

-----------------------------------------------------------------------------
(* Cell values and rows.                                                   *)

None == [type |-> "NoneType", value |-> <<>>]
Str(s) == [type |-> "str", value |-> s]
Num(digits) == [type |-> "int", value |-> digits]

\* row[k] with a 0-based k >= 0: the cell, or IndexError
IndexError(row, k) == k + 1 > Len(row)

-----------------------------------------------------------------------------
(* class XLSWorksheet                                                      *)

_allColumnsAfterBAreNone(row) ==
    \A i \in 3..Len(row) : row[i] = None

\* XLSWorksheet.__init__; values is list(worksheet.values)
XLSWorksheet(id_value, worksheet_index, title, values) ==
    LET rows_without_tables == SelectSeq(values, _allColumnsAfterBAreNone) IN
    [id |-> id_value,
     title |-> title,
     rows |-> values,
     num_rows |-> Len(values),
     worksheet_index |-> worksheet_index,
     rows_without_tables |-> rows_without_tables,
     num_non_table_rows |-> Len(rows_without_tables)]

MIN_ROWS == 50
MIN_NON_TABLE_ROWS == 50
CAPTION_ROWS == 10

SUMMARY_CAPTION ==
    <<"s","u","m","m","a","r","y"," ","o","f"," ",
      "s","i","g","n","i","f","i","c","a","n","t"," ",
      "a","c","c","o","u","n","t","i","n","g"," ",
      "p","o","l","i","c","i","e","s">>

CAPTION ==
    <<"s","i","g","n","i","f","i","c","a","n","t"," ",
      "a","c","c","o","u","n","t","i","n","g"," ",
      "p","o","l","i","c","i","e","s">>

\* the body of the inner loop: does this cell make the method return True
caption_cell_column_b_only(row, j) ==
    /\ j = 2
    /\ row[j] # None
    /\ row[j].type = "str"
    /\ \/ Contains(Lower(row[j].value), SUMMARY_CAPTION)
       \/ Contains(Lower(row[j].value), CAPTION)

caption_cell(row, j) ==
    /\ row[j] # None
    /\ row[j].type = "str"
    /\ \/ Contains(Lower(row[j].value), SUMMARY_CAPTION)
       \/ Contains(Lower(row[j].value), CAPTION)

is_summary_of_accounting_policies_sheet(self) ==
    IF self.num_rows < MIN_ROWS THEN FALSE
    ELSE IF self.num_non_table_rows < MIN_NON_TABLE_ROWS THEN FALSE
    ELSE \E i \in 1..Min(CAPTION_ROWS, Len(self.rows)) :
            \E j \in 1..Len(self.rows[i]) : caption_cell(self.rows[i], j)

-----------------------------------------------------------------------------
(* class AccountingPolicy, and XLSWorksheet.extract_accounting_policies    *)

AccountingPolicy(id_value, sheet_name, policy_name, policy_values) ==
    [id |-> id_value,
     sheet_name |-> sheet_name,
     policy_name |-> policy_name,
     policy_values |-> policy_values]

SKIP_ROWS == 4

PREAMBLE == <<"P","r","e","a","m","b","l","e">>

\* The state of the loop: the list built so far, current_accounting_policy
\* (<<>> is None, <<p>> is the open policy p), and whether row[1] raised.
ExtractStart == [accounting_policies |-> <<>>, current |-> <<>>,
                 raised |-> FALSE]

\* the branch of the loop body taken for a header
on_header_keeps_body(self, st, b) ==
    IF st.current = <<>>
    THEN [st EXCEPT !.current =
              <<AccountingPolicy(self.id, self.title, b, <<>>)>>]
    ELSE [st EXCEPT
            !.current = <<AccountingPolicy(self.id, self.title, b,
                                           st.current[1].policy_values)>>,
            !.accounting_policies = Append(@, st.current[1])]

on_header(self, st, b) ==
    IF st.current = <<>>
    THEN [st EXCEPT !.current =
              <<AccountingPolicy(self.id, self.title, b, <<>>)>>]
    ELSE [st EXCEPT
            !.current = <<AccountingPolicy(self.id, self.title, b, <<>>)>>,
            !.accounting_policies = Append(@, st.current[1])]

\* the branch of the loop body taken for any other text
on_text(self, st, b) ==
    IF st.current = <<>>
    THEN [st EXCEPT !.current =
              <<AccountingPolicy(self.id, self.title, PREAMBLE, <<b>>)>>]
    ELSE [st EXCEPT !.current[1].policy_values = Append(@, b)]

\* one iteration of the loop over rows_without_tables[4:]
extract_row(self, st, row) ==
    IF st.raised THEN st
    ELSE IF IndexError(row, 1) THEN [st EXCEPT !.raised = TRUE]
    ELSE LET b == row[2] IN
         IF b = None \/ b.type # "str" THEN st
         ELSE IF _isHeader(b.value) THEN on_header(self, st, b.value)
         ELSE on_text(self, st, b.value)

\* the iterations over rows, in row order: those over the first half of the
\* rows and, unless row[1] raised in one of them, those over the rest
RECURSIVE extract_loop(_, _, _)
extract_loop(self, st, rows) ==
    IF rows = <<>> THEN st
    ELSE IF Len(rows) = 1 THEN extract_row(self, st, rows[1])
    ELSE LET half == Len(rows) \div 2
             mid == extract_loop(self, st, SubSeq(rows, 1, half))
         IN  IF mid.raised THEN mid
             ELSE extract_loop(self, mid, SubSeq(rows, half + 1, Len(rows)))

\* rows[k:] of a Python list
From(rows, k) == SubSeq(rows, k + 1, Len(rows))

\* the loop over rows, and the lines after it: [raised |-> TRUE] when
\* row[1] raises IndexError, else the list returned
extract_over(self, rows) ==
    LET st == extract_loop(self, ExtractStart, rows) IN
    IF st.raised THEN [raised |-> TRUE, value |-> <<>>]
    ELSE [raised |-> FALSE,
          value |-> IF st.current # <<>>
                    THEN Append(st.accounting_policies, st.current[1])
                    ELSE st.accounting_policies]

extract_accounting_policies(self) ==
    extract_over(self, From(self.rows_without_tables, SKIP_ROWS))

-----------------------------------------------------------------------------
(* class OutputRow, and AccountingPolicy.get_output_row                    *)

OutputRow(id_value, sheet_name, policy_name, text) ==
    [id |-> id_value, sheet_name |-> sheet_name, policy |-> policy_name,
     text |-> text]

Digits == <<"0","1","2","3","4","5","6","7","8","9">>

PositionIn(chars, c) ==
    IF \E i \in 1..Len(chars) : chars[i] = c
    THEN CHOOSE i \in 1..Len(chars) : chars[i] = c
    ELSE 0

\* ord(c), for the characters the model's texts are made of
Ord(c) ==
    IF PositionIn(LowerCase, c) > 0 THEN 96 + PositionIn(LowerCase, c)
    ELSE IF PositionIn(UpperCase, c) > 0 THEN 64 + PositionIn(UpperCase, c)
    ELSE IF PositionIn(Digits, c) > 0 THEN 47 + PositionIn(Digits, c)
    ELSE CASE c = " " -> 32
           [] c = "$" -> 36
           [] c = "(" -> 40
           [] c = ")" -> 41
           [] c = "," -> 44
           [] c = "-" -> 45
           [] c = "." -> 46
           [] c = "/" -> 47
           [] c = ":" -> 58
           [] c = "@" -> 64
           [] c = "[" -> 91
           [] c = "_" -> 95
           [] c = "{" -> 123

\* does c match the regular expression's set [^a-zA-Z0-9.$ ]
re_excluded_keeps_comma(c) ==
    LET o == Ord(c) IN
    ~ \/ 97 <= o /\ o <= 122
      \/ 65 <= o /\ o <= 90
      \/ 48 <= o /\ o <= 57
      \/ c = "." \/ c = "$" \/ c = " " \/ c = ","

re_excluded(c) ==
    LET o == Ord(c) IN
    ~ \/ 97 <= o /\ o <= 122
      \/ 65 <= o /\ o <= 90
      \/ 48 <= o /\ o <= 57
      \/ c = "." \/ c = "$" \/ c = " "

\* the length of the longest match of [^a-zA-Z0-9.$ ]+ at the start of s
RECURSIVE re_match(_)
re_match(s) ==
    IF s # <<>> /\ re_excluded(Head(s)) THEN 1 + re_match(Tail(s)) ELSE 0

\* re.sub('[^a-zA-Z0-9.$ ]+', '', s): every match is replaced by ''
RECURSIVE re_sub(_)
re_sub(s) ==
    IF s = <<>> THEN <<>>
    ELSE LET n == re_match(s) IN
         IF n > 0 THEN re_sub(SubSeq(s, n + 1, Len(s)))
         ELSE <<Head(s)>> \o re_sub(Tail(s))

get_output_row(self) ==
    LET policy_text == Join(<<" ">>, self.policy_values) IN
    OutputRow(self.id, self.sheet_name, self.policy_name, re_sub(policy_text))

-----------------------------------------------------------------------------
(* XLSWorksheet.__lt__, sorted(reverse=True) and                           *)
(* InputRow.get_accounting_policies                                        *)

lt_rows_only(self, other) ==
    self.num_rows < other.num_rows

lt(self, other) ==
    \/ self.num_rows < other.num_rows
    \/ /\ self.num_rows = other.num_rows
       /\ self.worksheet_index < other.worksheet_index

Reverse(seq) == [i \in 1..Len(seq) |-> seq[Len(seq) + 1 - i]]

\* x put into the ascending list seq, after the elements it is not less than
RECURSIVE Insert(_, _)
Insert(x, seq) ==
    IF seq = <<>> THEN <<x>>
    ELSE IF lt(x, Head(seq)) THEN <<x>> \o seq
    ELSE <<Head(seq)>> \o Insert(x, Tail(seq))

\* a stable ascending sort that compares with __lt__ alone
RECURSIVE StableSort(_)
StableSort(seq) ==
    IF seq = <<>> THEN <<>>
    ELSE Insert(seq[Len(seq)], StableSort(SubSeq(seq, 1, Len(seq) - 1)))

\* sorted(seq, reverse=True): the list is reversed, sorted stably and
\* reversed again
sorted_not_reversed(seq) == StableSort(seq)

sorted_reverse(seq) == Reverse(StableSort(Reverse(seq)))

\* results.extend(...) for each sheet in turn; an IndexError leaves the loop
RECURSIVE extend_all(_, _)
extend_all(results, sheets) ==
    IF sheets = <<>> THEN [raised |-> FALSE, value |-> results]
    ELSE LET r == extract_accounting_policies(Head(sheets)) IN
         IF r.raised THEN [raised |-> TRUE, value |-> <<>>]
         ELSE extend_all(results \o r.value, Tail(sheets))

\* worksheets is workbook.worksheets, each a [title, values]
get_accounting_policies(id_value, worksheets) ==
    LET top_sheets ==
            sorted_reverse([i \in 1..Len(worksheets) |->
                XLSWorksheet(id_value, i - 1, worksheets[i].title,
                             worksheets[i].values)])
        accounting_policy_sheets ==
            SelectSeq(top_sheets, is_summary_of_accounting_policies_sheet)
    IN  extend_all(<<>>, accounting_policy_sheets)

-----------------------------------------------------------------------------
(* Specifications.  Each one draws the arguments of one operation from a   *)
(* bounded set of inputs and applies the operation.                        *)

\* the sequences over S of length at most n
SeqUpTo(S, n) == UNION {[1..k -> S] : k \in 0..n}

MainIdle ==
    /\ inputs = <<>>
    /\ index = 0
    /\ accounting_policies = <<>>
    /\ output_rows = <<>>
    /\ per_subject_files = <<>>
    /\ master_csv_output_rows = <<>>
    /\ master_file = <<>>
    /\ attempted = <<>>
    /\ completed = <<>>

(* _isHeader *)

HeadTokens ==
    {<<"a">>, <<" ">>, <<"$">>, <<"y","e","a","r">>, <<"Y","e","a","r">>,
     <<"y","e","a">>}

TailFields == {<<" ","a">>, <<" ">>}

\* a free head of tokens, then up to MaxTailFields more fields
InitHeader ==
    /\ pc = "call"
    /\ \E k \in 0..MaxHeadTokens, n \in 0..MaxTailFields, t \in TailFields :
          \E h \in [1..k -> HeadTokens] :
             b_column_value = Flatten(h) \o Flatten(Repeat(t, n))
    /\ worksheet = <<>>
    /\ policy = <<>>
    /\ workbook = <<>>
    /\ ret = <<>>
    /\ MainIdle

CallIsHeader ==
    /\ pc = "call"
    /\ ret' = _isHeader(b_column_value)
    /\ pc' = "done"
    /\ UNCHANGED <<callVars, mainVars>>

NextHeader == CallIsHeader

SpecHeader == InitHeader /\ [][NextHeader]_vars

-----------------------------------------------------------------------------
(* Claims about _isHeader.                                                 *)

\* the number of fields a text has when split at every single space
FieldCount(text) == Cardinality({i \in 1..Len(text) : text[i] = " "}) + 1

HasYear(text) ==
    \E i \in 1..(Len(text) - 3) :
        /\ text[i] = "y" /\ text[i + 1] = "e"
        /\ text[i + 2] = "a" /\ text[i + 3] = "r"

HasDollar(text) == \E i \in 1..Len(text) : text[i] = "$"

\* C3: _isHeader returns True exactly for the texts of at most 8
\* space-separated fields that contain neither "year" nor "$".
C3_IsHeaderIff ==
    pc = "done" =>
        (ret <=> /\ FieldCount(b_column_value) <= 8
                 /\ ~HasYear(b_column_value)
                 /\ ~HasDollar(b_column_value))

\* a text of nine words without "year" or "$" was judged not to be a header
C3_NineWordsRejected ==
    /\ pc = "done"
    /\ b_column_value = Flatten(<<<<"a">>>> \o Repeat(<<" ","a">>, 8))
    /\ ret = FALSE

-----------------------------------------------------------------------------
(* is_summary_of_accounting_policies_sheet                                 *)

SubjectId == <<"7">>
SheetTitle == <<"S","1">>

CaptionMixedCase ==
    <<"S","u","m","m","a","r","y"," ","o","f"," ",
      "S","i","g","n","i","f","i","c","a","n","t"," ",
      "A","c","c","o","u","n","t","i","n","g"," ",
      "P","o","l","i","c","i","e","s">>

CaptionUpperCase ==
    <<"1","."," ","S","I","G","N","I","F","I","C","A","N","T"," ",
      "A","C","C","O","U","N","T","I","N","G"," ",
      "P","O","L","I","C","I","E","S"," ","(","a",")">>

CaptionNearMiss ==
    <<"S","i","g","n","i","f","i","c","a","n","t"," ",
      "A","c","c","o","u","n","t","i","n","g"," ",
      "P","o","l","i","c","y">>

CaptionCells ==
    {Str(CaptionMixedCase), Str(CaptionUpperCase), Str(CaptionNearMiss),
     Num(<<"1">>), None}

BlankRow == <<None, None, None>>
TextRow == <<None, Str(<<"C","a","s","h">>), None>>
TableRow == <<Str(<<"C","a","s","h">>), Num(<<"1">>), Num(<<"2">>)>>

CaptionRow(cell, col) == [j \in 1..3 |-> IF j = col THEN cell ELSE None]

\* blank rows, the caption row, text rows up to about the threshold, and
\* table rows
ClassifierValues(at, cell, col, over, tables) ==
    Repeat(BlankRow, at) \o <<CaptionRow(cell, col)>>
        \o Repeat(TextRow, MIN_NON_TABLE_ROWS - at - 1 + over)
        \o Repeat(TableRow, tables)

InitClassify ==
    /\ pc = "call"
    /\ \E at \in 0..MaxCaptionIndex, cell \in CaptionCells, col \in 1..3,
          over \in (-1)..MaxOver, tables \in 0..MaxTableRows :
             worksheet = XLSWorksheet(SubjectId, 0, SheetTitle,
                            ClassifierValues(at, cell, col, over, tables))
    /\ b_column_value = <<>>
    /\ policy = <<>>
    /\ workbook = <<>>
    /\ ret = <<>>
    /\ MainIdle

CallIsSummary ==
    /\ pc = "call"
    /\ ret' = is_summary_of_accounting_policies_sheet(worksheet)
    /\ pc' = "done"
    /\ UNCHANGED <<callVars, mainVars>>

NextClassify == CallIsSummary

SpecClassify == InitClassify /\ [][NextClassify]_vars

-----------------------------------------------------------------------------
(* Claims about is_summary_of_accounting_policies_sheet.                   *)

\* C1: a worksheet of at most 50 rows is never judged to be the summary of
\* accounting policies.
C1_FalseUpTo50Rows ==
    pc = "done" /\ worksheet.num_rows <= 50 => ret = FALSE

\* C5: a worksheet of at most 50 non-tabular rows is never judged to be the
\* summary of accounting policies.
C5_FalseUpTo50NonTableRows ==
    pc = "done" /\ worksheet.num_non_table_rows <= 50 => ret = FALSE

SameLetter(a, b) ==
    a = b \/ \E i \in 1..26 : {a, b} = {UpperCase[i], LowerCase[i]}

ContainsIgnoringCase(text, sub) ==
    \E k \in 0..(Len(text) - Len(sub)) :
        \A m \in 1..Len(sub) : SameLetter(text[k + m], sub[m])

\* some string cell of row i (1-based) holds the caption
CaptionInRow(values, i) ==
    \E j \in 1..Len(values[i]) :
        /\ values[i][j].type = "str"
        /\ ContainsIgnoringCase(values[i][j].value, CAPTION)

CaptionInFirstTen(values) ==
    \E i \in 1..Len(values) : i <= 10 /\ CaptionInRow(values, i)

\* C6: a worksheet of more than 50 rows and more than 50 non-tabular rows
\* is judged to be the summary exactly when a string cell of its first ten
\* rows, in any column, holds "significant accounting policies" in any case.
C6_CaptionDecides ==
    pc = "done" /\ worksheet.num_rows > 50
                /\ worksheet.num_non_table_rows > 50
        => (ret <=> CaptionInFirstTen(worksheet.rows))

\* a large worksheet whose only caption is in the eleventh row was rejected
C6_CaptionTooLate ==
    /\ pc = "done"
    /\ worksheet.num_rows > 50
    /\ worksheet.num_non_table_rows > 50
    /\ CaptionInRow(worksheet.rows, 11)
    /\ ret = FALSE

\* a large worksheet with the caption in column C of a leading row was accepted
C6_CaptionInColumnC ==
    /\ pc = "done"
    /\ worksheet.num_rows > 50
    /\ worksheet.num_non_table_rows > 50
    /\ \E i \in 1..10 : worksheet.rows[i][3].type = "str"
    /\ ret = TRUE

-----------------------------------------------------------------------------
(* extract_accounting_policies                                             *)

Cash == <<"C","a","s","h">>
Debt == <<"D","e","b","t">>
FiscalYear == <<"F","i","s","c","a","l"," ","y","e","a","r">>
NineWords == <<"a"," ","b"," ","c"," ","d"," ","e"," ","f"," ","g"," ",
               "h"," ","i">>
Title == <<"N","o","t","e","s">>

BValues == {None, Num(<<"7">>), Str(Cash), Str(Debt), Str(NineWords),
            Str(FiscalYear)}

\* the rows of w cells: any column-B value with nothing after it and, from
\* three cells on, rows of a table
RowsOfWidth(w) ==
    IF w = 1 THEN {<<None>>, <<Str(Cash)>>}
    ELSE {<<None, b>> \o Repeat(None, w - 2) : b \in BValues}
         \cup (IF w >= 3
               THEN {<<None, b>> \o Repeat(None, w - 3) \o <<Num(<<"7">>)>> :
                        b \in {Str(Cash), Str(NineWords)}}
               ELSE {})

TitleRow(w) ==
    IF w = 1 THEN <<Str(Title)>>
    ELSE <<None, Str(Title)>> \o Repeat(None, w - 2)

\* up to four title rows and then up to MaxBodyRows rows, all of one width
InitExtract ==
    /\ pc = "call"
    /\ \E w \in 1..MaxWidth, titles \in 0..SKIP_ROWS, n \in 0..MaxBodyRows :
          \E body \in [1..n -> RowsOfWidth(w)] :
             worksheet = XLSWorksheet(SubjectId, 0, SheetTitle,
                                      Repeat(TitleRow(w), titles) \o body)
    /\ b_column_value = <<>>
    /\ policy = <<>>
    /\ workbook = <<>>
    /\ ret = <<>>
    /\ MainIdle

CallExtract ==
    /\ pc = "call"
    /\ ret' = extract_accounting_policies(worksheet)
    /\ pc' = "done"
    /\ UNCHANGED <<callVars, mainVars>>

NextExtract == CallExtract

SpecExtract == InitExtract /\ [][NextExtract]_vars

-----------------------------------------------------------------------------
(* Claims about extract_accounting_policies.                               *)

\* the non-tabular rows after the first four
RowsAfterSkip == From(worksheet.rows_without_tables, 4)

HasStringB(row) == Len(row) >= 2 /\ row[2].type = "str"

\* their string column-B values, in row order
StringBValues ==
    LET rows == SelectSeq(RowsAfterSkip, HasStringB) IN
    [k \in 1..Len(rows) |-> rows[k][2].value]

Heading(text) ==
    FieldCount(text) <= 8 /\ ~HasYear(text) /\ ~HasDollar(text)

\* the values after V[k] up to the next heading
BodyAfter(V, k) ==
    LET stop == IF \E e \in (k + 1)..Len(V) : Heading(V[e])
                THEN CHOOSE e \in (k + 1)..Len(V) :
                        /\ Heading(V[e])
                        /\ \A d \in (k + 1)..(e - 1) : ~Heading(V[d])
                ELSE Len(V) + 1
    IN SubSeq(V, k + 1, stop - 1)

HeadingsUpTo(V, k) == Cardinality({h \in 1..k : Heading(V[h])})

PreambleCount(V) == IF V # <<>> /\ ~Heading(V[1]) THEN 1 ELSE 0

\* C4: a first value that is no heading opens a record named "Preamble"
\* whose body starts with it; every heading closes the open record and opens
\* one of its own name with an empty body, which the values up to the next
\* heading are appended to; a heading that comes last leaves a last record
\* with an empty body.
C4_RecordsFollowValues ==
    pc = "done" =>
        LET V == StringBValues
            out == ret.value
        IN  /\ PreambleCount(V) = 1 =>
                /\ ~ret.raised
                /\ Len(out) >= 1
                /\ out[1].policy_name = PREAMBLE
                /\ out[1].policy_values = <<V[1]>> \o BodyAfter(V, 1)
            /\ \A k \in 1..Len(V) :
                Heading(V[k]) =>
                    LET r == HeadingsUpTo(V, k) + PreambleCount(V) IN
                    /\ ~ret.raised
                    /\ Len(out) >= r
                    /\ out[r].policy_name = V[k]
                    /\ out[r].policy_values = BodyAfter(V, k)
            /\ V # <<>> /\ Heading(V[Len(V)]) =>
                /\ out[Len(out)].policy_name = V[Len(V)]
                /\ out[Len(out)].policy_values = <<>>

\* text before the first heading and a heading in the last row were found
C4_PreambleThenLastHeading ==
    /\ pc = "done"
    /\ StringBValues = <<NineWords, Cash, FiscalYear, Debt>>
    /\ Len(ret.value) = 3
    /\ ret.value[1].policy_name = PREAMBLE
    /\ ret.value[3].policy_values = <<>>

\* C7: the segmentation raises no error, and the rows whose column-B cell is
\* absent, missing or not a string leave its result as it is without them.
C7_SegmentIsTotal ==
    pc = "done" =>
        /\ ~ret.raised
        /\ ret = extract_over(worksheet, SelectSeq(RowsAfterSkip, HasStringB))

\* name (but for a preamble record) and body of every record, in order
RECURSIVE FlattenRecords(_)
FlattenRecords(out) ==
    IF out = <<>> THEN <<>>
    ELSE (IF Head(out).policy_name = PREAMBLE THEN <<>>
          ELSE <<Head(out).policy_name>>)
         \o Head(out).policy_values \o FlattenRecords(Tail(out))

\* C9: the records, flattened, are the string column-B values of the
\* non-tabular rows after the first four, and there is one record for each
\* heading and one for a preamble.
C9_NothingLostOrAdded ==
    pc = "done" =>
        /\ ~ret.raised
        /\ FlattenRecords(ret.value) = StringBValues
        /\ Len(ret.value) = HeadingsUpTo(StringBValues, Len(StringBValues))
                            + PreambleCount(StringBValues)

\* the same, of the calls that return
C9_NothingLostOrAddedOnReturn ==
    pc = "done" /\ ~ret.raised =>
        /\ FlattenRecords(ret.value) = StringBValues
        /\ Len(ret.value) = HeadingsUpTo(StringBValues, Len(StringBValues))
                            + PreambleCount(StringBValues)

-----------------------------------------------------------------------------
(* get_output_row                                                          *)

CleanupChars == {"a", "Z", "0", "9", ".", "$", " ", "(", ",", "@", "[", "{"}

PolicyNames == {PREAMBLE, <<"(","a",")">>}

\* no line, one line, or two lines of up to MaxTextLen characters together
InitOutputRow ==
    /\ pc = "call"
    /\ \E n \in 0..MaxTextLen, name \in PolicyNames :
          \E text \in [1..n -> CleanupChars] :
             \E lines \in {<<>>, <<text>>}
                          \cup {<<SubSeq(text, 1, cut), SubSeq(text, cut + 1, n)>> :
                                   cut \in 0..n} :
                policy = AccountingPolicy(SubjectId, SheetTitle, name, lines)
    /\ b_column_value = <<>>
    /\ worksheet = <<>>
    /\ workbook = <<>>
    /\ ret = <<>>
    /\ MainIdle

CallGetOutputRow ==
    /\ pc = "call"
    /\ ret' = get_output_row(policy)
    /\ pc' = "done"
    /\ UNCHANGED <<callVars, mainVars>>

NextOutputRow == CallGetOutputRow

SpecOutputRow == InitOutputRow /\ [][NextOutputRow]_vars

-----------------------------------------------------------------------------
(* Claims about get_output_row.                                            *)

Range(seq) == {seq[i] : i \in 1..Len(seq)}

\* the retained characters [A-Za-z0-9.$ ]
Retained(c) ==
    c \in Range(UpperCase) \cup Range(LowerCase) \cup Range(Digits)
          \cup {".", "$", " "}

\* the lines with one space between each two
RECURSIVE SpaceJoined(_)
SpaceJoined(lines) ==
    IF lines = <<>> THEN <<>>
    ELSE IF Len(lines) = 1 THEN lines[1]
    ELSE SpaceJoined(SubSeq(lines, 1, Len(lines) - 1))
         \o <<" ">> \o lines[Len(lines)]

\* C8: the text of the output row is the body lines joined by single spaces
\* with exactly the characters outside [A-Za-z0-9.$ ] removed; id, sheet
\* name and policy name are those of the policy.
C8_CleanupKeepsRetainedSet ==
    pc = "done" =>
        /\ ret.text = SelectSeq(SpaceJoined(policy.policy_values), Retained)
        /\ ret.id = policy.id
        /\ ret.sheet_name = policy.sheet_name
        /\ ret.policy = policy.policy_name

\* two lines with punctuation at the line break were cleaned
C8_TwoLinesCleaned ==
    /\ pc = "done"
    /\ policy.policy_values = <<<<"a", ",">>, <<"$">>>>
    /\ policy.policy_name = <<"(","a",")">>
    /\ ret.text = <<"a", " ", "$">>

-----------------------------------------------------------------------------
(* get_accounting_policies                                                 *)

\* a worksheet of two columns and n rows: a caption or a title, a heading
\* in the fifth row and text under it
NarrativeValues(n, first, heading) ==
    IF n < 6 THEN Repeat(<<None, Str(first)>>, n)
    ELSE <<<<None, Str(first)>>>> \o Repeat(<<None, None>>, 3)
         \o <<<<None, Str(heading)>>, <<None, Str(NineWords)>>>>
         \o Repeat(<<None, None>>, n - 6)

\* a worksheet of one column and n rows with the caption in the first
SingleColumnValues(n) ==
    <<<<Str(CaptionMixedCase)>>>> \o Repeat(<<None>>, n - 1)

WorkbookValues ==
    {NarrativeValues(MIN_ROWS + 2, CaptionMixedCase, Cash),
     NarrativeValues(MIN_ROWS + 2, CaptionUpperCase, Debt),
     NarrativeValues(MIN_ROWS + 3, CaptionMixedCase, Debt),
     NarrativeValues(MIN_ROWS + 4, Title, Cash),
     NarrativeValues(MIN_ROWS, CaptionMixedCase, Cash),
     NarrativeValues(CAPTION_ROWS, CaptionMixedCase, Cash),
     SingleColumnValues(MIN_ROWS + 2)}

\* the title of the worksheet at a 0-based position
TitleAt(i) == <<"S", Digits[i + 1]>>

InitWorkbook ==
    /\ pc = "call"
    /\ \E n \in 0..MaxSheets :
          \E values \in [1..n -> WorkbookValues] :
             workbook = [i \in 1..n |->
                            [title |-> TitleAt(i - 1), values |-> values[i]]]
    /\ b_column_value = <<>>
    /\ worksheet = <<>>
    /\ policy = <<>>
    /\ ret = <<>>
    /\ MainIdle

CallGetAccountingPolicies ==
    /\ pc = "call"
    /\ ret' = get_accounting_policies(SubjectId, workbook)
    /\ pc' = "done"
    /\ UNCHANGED <<callVars, mainVars>>

NextWorkbook == CallGetAccountingPolicies

SpecWorkbook == InitWorkbook /\ [][NextWorkbook]_vars

-----------------------------------------------------------------------------
(* Claims about get_accounting_policies.                                   *)

\* the worksheet at position i (1-based) of the workbook
SheetAt(i) ==
    XLSWorksheet(SubjectId, i - 1, workbook[i].title, workbook[i].values)

Qualifying ==
    {i \in 1..Len(workbook) :
        is_summary_of_accounting_policies_sheet(SheetAt(i))}

\* more rows first, and of two worksheets of as many rows the earlier first
EarlierFirst(i, j) ==
    \/ SheetAt(i).num_rows > SheetAt(j).num_rows
    \/ SheetAt(i).num_rows = SheetAt(j).num_rows /\ i < j

\* more rows first, and of two worksheets of as many rows the later first
LaterFirst(i, j) ==
    \/ SheetAt(i).num_rows > SheetAt(j).num_rows
    \/ SheetAt(i).num_rows = SheetAt(j).num_rows /\ i > j

\* the qualifying worksheets in the order Before gives
Ranked(Before(_, _)) ==
    [k \in 1..Cardinality(Qualifying) |->
        CHOOSE i \in Qualifying :
            Cardinality({j \in Qualifying : Before(j, i)}) = k - 1]

\* the segmentations of the worksheets at the positions order, concatenated
Segmentations(order) ==
    Flatten([k \in 1..Len(order) |->
                extract_accounting_policies(SheetAt(order[k])).value])

SomeSegmentationRaises ==
    \E i \in Qualifying : extract_accounting_policies(SheetAt(i)).raised

-----------------------------------------------------------------------------
(* main: the loop over the rows of the input manifest.  An InputRow is a   *)
(* record [id, worksheets]; worksheets is what the file behind its URL     *)
(* holds.  fetch_file, openpyxl.load_workbook and OutputCSV.write may      *)
(* raise, and so may get_accounting_policies (IndexError).                 *)

Sheet(i, values) == [title |-> TitleAt(i), values |-> values]

ManifestFiles ==
    {<<Sheet(0, NarrativeValues(MIN_ROWS + 2, CaptionMixedCase, Cash))>>,
     <<Sheet(0, NarrativeValues(CAPTION_ROWS, CaptionMixedCase, Cash))>>,
     <<Sheet(0, SingleColumnValues(MIN_ROWS + 2))>>}

InitMain ==
    /\ pc = "for"
    /\ \E n \in 0..MaxInputs :
          \E files \in [1..n -> ManifestFiles] :
             inputs = [i \in 1..n |->
                          [id |-> <<Digits[i + 1]>>, worksheets |-> files[i]]]
    /\ index = 0
    /\ accounting_policies = <<>>
    /\ output_rows = <<>>
    /\ per_subject_files = <<>>
    /\ master_csv_output_rows = <<>>
    /\ master_file = <<>>
    /\ attempted = <<>>
    /\ completed = <<>>
    /\ b_column_value = <<>>
    /\ worksheet = <<>>
    /\ policy = <<>>
    /\ workbook = <<>>
    /\ ret = <<>>

\* for input_row in inputs: the next row, or the end of the loop
ForInputRow ==
    /\ pc = "for"
    /\ IF index < Len(inputs)
       THEN /\ index' = index + 1
            /\ attempted' = Append(attempted, index + 1)
            /\ pc' = "fetch_file"
       ELSE /\ pc' = "master"
            /\ UNCHANGED <<index, attempted>>
    /\ UNCHANGED <<callVars, ret, inputs, accounting_policies, output_rows,
                   per_subject_files, master_csv_output_rows, master_file,
                   completed>>

\* except Exception: the error is logged and the loop goes on
Except ==
    /\ pc' = "for"
    /\ UNCHANGED <<callVars, ret, mainVars>>

FetchFile ==
    /\ pc = "fetch_file"
    /\ pc' = "get_accounting_policies"
    /\ UNCHANGED <<callVars, ret, mainVars>>

FetchFileRaises ==
    /\ pc = "fetch_file"
    /\ Except

GetAccountingPolicies ==
    /\ pc = "get_accounting_policies"
    /\ LET r == get_accounting_policies(inputs[index].id,
                                        inputs[index].worksheets) IN
       IF r.raised
       THEN Except
       ELSE /\ accounting_policies' = r.value
            /\ pc' = "get_output_row"
            /\ UNCHANGED <<callVars, ret, inputs, index, output_rows,
                           per_subject_files, master_csv_output_rows,
                           master_file, attempted, completed>>

LoadWorkbookRaises ==
    /\ pc = "get_accounting_policies"
    /\ Except

GetOutputRows ==
    /\ pc = "get_output_row"
    /\ output_rows' = [k \in 1..Len(accounting_policies) |->
                          get_output_row(accounting_policies[k])]
    /\ pc' = "write"
    /\ UNCHANGED <<callVars, ret, inputs, index, accounting_policies,
                   per_subject_files, master_csv_output_rows, master_file,
                   attempted, completed>>

WriteOutputCsv ==
    /\ pc = "write"
    /\ per_subject_files' =
          Append(per_subject_files,
                 [name |-> inputs[index].id, rows |-> output_rows])
    /\ pc' = "extend"
    /\ UNCHANGED <<callVars, ret, inputs, index, accounting_policies,
                   output_rows, master_csv_output_rows, master_file,
                   attempted, completed>>

WriteOutputCsvRaises_after_extend ==
    /\ pc = "write"
    /\ master_csv_output_rows' = master_csv_output_rows \o output_rows
    /\ pc' = "for"
    /\ UNCHANGED <<callVars, ret, inputs, index, accounting_policies,
                   output_rows, per_subject_files, master_file, attempted,
                   completed>>

WriteOutputCsvRaises ==
    /\ pc = "write"
    /\ Except

\* master_csv_output_rows.extend(output_rows), the last line of the try
ExtendMaster ==
    /\ pc = "extend"
    /\ master_csv_output_rows' = master_csv_output_rows \o output_rows
    /\ completed' = Append(completed, index)
    /\ pc' = "for"
    /\ UNCHANGED <<callVars, ret, inputs, index, accounting_policies,
                   output_rows, per_subject_files, master_file, attempted>>

WriteMasterCsv ==
    /\ pc = "master"
    /\ master_file' = [written |-> TRUE, rows |-> master_csv_output_rows]
    /\ pc' = "done"
    /\ UNCHANGED <<callVars, ret, inputs, index, accounting_policies,
                   output_rows, per_subject_files, master_csv_output_rows,
                   attempted, completed>>

WriteMasterCsvRaises ==
    /\ pc = "master"
    /\ master_file' = [written |-> FALSE, rows |-> <<>>]
    /\ pc' = "done"
    /\ UNCHANGED <<callVars, ret, inputs, index, accounting_policies,
                   output_rows, per_subject_files, master_csv_output_rows,
                   attempted, completed>>

NextMain ==
    \/ ForInputRow
    \/ FetchFile
    \/ FetchFileRaises
    \/ GetAccountingPolicies
    \/ LoadWorkbookRaises
    \/ GetOutputRows
    \/ WriteOutputCsv
    \/ WriteOutputCsvRaises
    \/ ExtendMaster
    \/ WriteMasterCsv
    \/ WriteMasterCsvRaises

SpecMain == InitMain /\ [][NextMain]_vars

-----------------------------------------------------------------------------
(* Claims about main.                                                      *)

\* the output rows of the subject at position i of the manifest
RowsOfSubject(i) ==
    LET policies == get_accounting_policies(inputs[i].id,
                                            inputs[i].worksheets).value IN
    [k \in 1..Len(policies) |-> get_output_row(policies[k])]

\* the output rows of the subjects that completed, in manifest order
RowsOfCompleted ==
    Flatten([k \in 1..Len(completed) |-> RowsOfSubject(completed[k])])

\* C10: an exception in the processing of a subject does not end the run:
\* the loop is left only when every subject has been attempted, in manifest
\* order, and the write of master.csv that follows is made with exactly the
\* rows of the subjects that completed, in manifest order.
C10_FailuresAreIsolated ==
    /\ pc \in {"master", "done"} =>
        /\ attempted = [i \in 1..Len(inputs) |-> i]
        /\ \A k \in 1..(Len(completed) - 1) : completed[k] < completed[k + 1]
        /\ master_csv_output_rows = RowsOfCompleted
    /\ pc = "done" =>
        /\ master_file # <<>>
        /\ master_file.written => master_file.rows = RowsOfCompleted

\* the first subject failed and the rows of the second are in master.csv
C10_SecondSubjectAfterFailure ==
    /\ pc = "done"
    /\ Len(inputs) = 2
    /\ completed = <<2>>
    /\ master_file.written
    /\ master_file.rows # <<>>
    /\ master_file.rows = RowsOfSubject(2)

=============================================================================
